---- MODULE Spec2Model ----
(***************************************************************************)
(* Repository Compliance Engine (class Validator).                         *)
(*                                                                         *)
(* The target directory is the variable fs.  File contents, file names and *)
(* interpolated messages are sequences of tokens; String.includes,         *)
(* String.endsWith, String.trim, RegExp.test and yaml.parse are computed   *)
(* on those sequences.  One action is one step of validateRepository       *)
(* between two awaits of a rule category.                                   *)
(***************************************************************************)
EXTENDS Integers, Sequences, FiniteSets, TLC

VARIABLES fs, results, pc, caught, caller, options, ref, held, fixLog, cli, second

vars == <<fs, results, pc, caught, caller, options, ref, held, fixLog, cli, second>>

(* undefined: an attribute that is not set, and "no error". *)
Undefined == <<>>

(* Largest number of entries readdir returns for .github/workflows. *)
MaxFiles == 2

(* Largest number of documents readdir returns for docs/. *)
MaxDocs == 1

(* Largest number of applyFix calls a program using the engine makes. *)
MaxFixes == 2

RepoPath == <<"/repo">>

----------------------------------------------------------------------------
(* Strings as token sequences *)

IsPrefixAt(needle, hay, at) ==
  /\ at + Len(needle) - 1 <= Len(hay)
  /\ \A k \in 1..Len(needle) : hay[at + k - 1] = needle[k]

Includes(hay, needle) ==
  \E at \in 1..(Len(hay) + 1) : IsPrefixAt(needle, hay, at)

EndsWith(s, suffix) ==
  /\ Len(suffix) <= Len(s)
  /\ IsPrefixAt(suffix, s, Len(s) - Len(suffix) + 1)

WhiteSpace == {" ", "\n", "\t"}

RECURSIVE TrimStart(_)
TrimStart(s) ==
  IF s # <<>> /\ Head(s) \in WhiteSpace THEN TrimStart(Tail(s)) ELSE s

RECURSIVE TrimEnd(_)
TrimEnd(s) ==
  IF s # <<>> /\ s[Len(s)] \in WhiteSpace
  THEN TrimEnd(SubSeq(s, 1, Len(s) - 1)) ELSE s

Trim(s) == TrimEnd(TrimStart(s))

Count(s, Test(_)) == Len(SelectSeq(s, Test))

----------------------------------------------------------------------------
(* Regular expressions: a pattern is a sequence of items, each matching    *)
(* one character, possibly repeated (+); Test anchors at both ends and     *)
(* tries the pattern with and without its optional trailing group.         *)

Digits == {"0", "1", "2", "3", "4", "5", "6", "7", "8", "9"}

Lit(c)     == [kind |-> "lit",   ch |-> c, plus |-> FALSE]
LitPlus(c) == [kind |-> "lit",   ch |-> c, plus |-> TRUE]
AnyChar    == [kind |-> "any",   ch |-> "",  plus |-> FALSE]
DigitPlus  == [kind |-> "digit", ch |-> "",  plus |-> TRUE]

Accepts(item, c) ==
  CASE item.kind = "lit"   -> c = item.ch
    [] item.kind = "any"   -> c # "\n"
    [] item.kind = "digit" -> c \in Digits

RECURSIVE MatchFrom(_, _, _, _)
MatchFrom(pat, i, s, j) ==
  IF i > Len(pat) THEN j > Len(s)
  ELSE IF j > Len(s) THEN FALSE
  ELSE IF ~Accepts(pat[i], s[j]) THEN FALSE
  ELSE \/ MatchFrom(pat, i + 1, s, j + 1)
       \/ (pat[i].plus /\ MatchFrom(pat, i, s, j + 1))

RegExpTest(base, opt, s) ==
  MatchFrom(base, 1, s, 1) \/ MatchFrom(base \o opt, 1, s, 1)

(* The literal /^\\d+\\.\\d+\\.\\d+(?:\\.\\d+)?$/ : inside a regular        *)
(* expression literal "\\" is an escaped backslash, so "\\d+" is a          *)
(* backslash followed by one or more letters d, and "\\." is a backslash    *)
(* followed by any character.                                               *)
VersionRegexBase ==
  << Lit("\\"), LitPlus("d"), Lit("\\"), AnyChar,
     Lit("\\"), LitPlus("d"), Lit("\\"), AnyChar,
     Lit("\\"), LitPlus("d") >>

VersionRegexOpt == << Lit("\\"), AnyChar, Lit("\\"), LitPlus("d") >>

VersionRegexTest(version) ==
  RegExpTest(VersionRegexBase, VersionRegexOpt, version)

----------------------------------------------------------------------------
(* The target directory *)

File(st, content) == [st |-> st, content |-> content]
AbsentFile     == File("absent", <<>>)
UnreadableFile == File("unreadable", <<>>)
Text(content)  == File("file", content)

pathExists(node) == node.st # "absent"
CanRead(node)    == node.st = "file"
ReadError(p)    == <<"EISDIR: illegal operation on a directory, read ">> \o p
ReaddirError(p) == <<"ENOTDIR: not a directory, scandir ">> \o p

requiredFiles ==
  << [path |-> "VERSION.txt", description |-> "Version file"],
     [path |-> "README.md",   description |-> "Repository documentation"],
     [path |-> "LICENSE",     description |-> "License file"] >>

optionalFiles ==
  << [path |-> "CHANGELOG.md",    description |-> "Change log"],
     [path |-> "CONTRIBUTING.md", description |-> "Contributing guidelines"],
     [path |-> "SECURITY.md",     description |-> "Security policy"] >>

toLowerCase(str) ==
  CASE str = "Version file"             -> "version file"
    [] str = "Repository documentation" -> "repository documentation"
    [] str = "License file"             -> "license file"
    [] str = "Change log"               -> "change log"
    [] str = "Contributing guidelines"  -> "contributing guidelines"
    [] str = "Security policy"          -> "security policy"
    [] OTHER                            -> str

RequiredNames == {requiredFiles[i].path : i \in 1..Len(requiredFiles)}
OptionalNames == {optionalFiles[i].path : i \in 1..Len(optionalFiles)}
DevcontainerName == ".devcontainer/devcontainer.json"
RootNames == RequiredNames \cup OptionalNames \cup {"Dockerfile", DevcontainerName}

(* A path is the sequence of its segments. *)
Join(dir, name) == dir \o name
basename(p) == p[Len(p)]

(* Number of characters of a token of README.md. *)
TokChars(tok) ==
  CASE tok = "# "      -> 2
    [] tok = "Title"   -> 5
    [] tok = "\n"      -> 1
    [] tok = "prose"   -> 120
    [] OTHER           -> 1

RECURSIVE StrLength(_)
StrLength(s) == IF s = <<>> THEN 0 ELSE TokChars(Head(s)) + StrLength(Tail(s))

ReadmeMinLength == 100

----------------------------------------------------------------------------
(* The report *)

EmptyResults ==
  [ isValid         |-> FALSE,
    filesChecked    |-> 0,
    errors          |-> <<>>,
    warnings        |-> <<>>,
    fixableIssues   |-> <<>>,
    recommendations |-> <<>>,
    categories      |-> <<>> ]

Finding(message, file, category, suggestion) ==
  [message |-> message, file |-> file, category |-> category,
   suggestion |-> suggestion]

Issue(type, file, description, fix, template) ==
  [type |-> type, file |-> file, description |-> description, fix |-> fix,
   template |-> template]

PushError_Front(r, e) == [r EXCEPT !.errors = <<e>> \o @]

PushError(r, e)   == [r EXCEPT !.errors = Append(@, e)]
PushWarning(r, w) == [r EXCEPT !.warnings = Append(@, w)]
PushRecommendation(r, m) == [r EXCEPT !.recommendations = Append(@, m)]
PushFixable(r, i) == [r EXCEPT !.fixableIssues = Append(@, i)]
IncFilesChecked_Never(r) == r

IncFilesChecked(r) == [r EXCEPT !.filesChecked = @ + 1]

(* results.categories keeps its keys in insertion order. *)
CatNames(r) == {r.categories[i].name : i \in 1..Len(r.categories)}
CatIndex(r, name) == CHOOSE i \in 1..Len(r.categories) : r.categories[i].name = name
CatOf(r, name) == r.categories[CatIndex(r, name)]

SetCategory(r, name, passed, message) ==
  LET entry == [name |-> name, passed |-> passed, message |-> message] IN
  IF name \in CatNames(r)
  THEN [r EXCEPT !.categories[CatIndex(r, name)] = entry]
  ELSE [r EXCEPT !.categories = Append(@, entry)]

SetPassed_Ignored(r, name, passed) == r

SetPassed(r, name, passed) ==
  [r EXCEPT !.categories[CatIndex(r, name)].passed = passed]

SetMessage(r, name, message) ==
  [r EXCEPT !.categories[CatIndex(r, name)].message = message]

(* An asynchronous rule either completes with the report it has built or   *)
(* rejects with an error; the report keeps what was pushed before.         *)
Done(r)       == [res |-> r, err |-> Undefined]
Throw(r, err) == [res |-> r, err |-> err]

----------------------------------------------------------------------------
(* Core Files *)

CoreFiles == "Core Files"

VersionWarning(filePath) ==
  Finding(<<"VERSION.txt should contain valid semantic version (e.g., 1.0.0)">>,
          filePath, "versioning", Undefined)

CheckVersion(r, filePath, content) ==
  LET version == Trim(content) IN
  IF ~VersionRegexTest(version) THEN PushWarning(r, VersionWarning(filePath))
  ELSE r

CheckReadme(r, filePath, content) ==
  LET r1 == IF StrLength(content) < ReadmeMinLength
            THEN PushWarning(r, Finding(
                   <<"README.md appears to be very short - consider adding more documentation">>,
                   filePath, "documentation", Undefined))
            ELSE r
  IN IF ~Includes(content, <<"# ">>)
     THEN PushWarning(r1, Finding(<<"README.md should include a main heading">>,
                                  filePath, "documentation", Undefined))
     ELSE r1

validateFileContent(r, tree, filePath) ==
  LET fileName == basename(filePath)
      node     == tree.files[fileName]
  IN IF ~CanRead(node) THEN Throw(r, ReadError(filePath))
     ELSE LET r1 == IF fileName = "VERSION.txt"
                    THEN CheckVersion(r, filePath, node.content) ELSE r
              r2 == IF fileName = "README.md"
                    THEN CheckReadme(r1, filePath, node.content) ELSE r1
          IN Done(r2)

MissingRequiredError_NoSuggestion(file) ==
  Finding(<<"Missing required file: ", file.path>>, <<file.path>>, "core-files",
          Undefined)

MissingRequiredError(file) ==
  Finding(<<"Missing required file: ", file.path>>, <<file.path>>, "core-files",
          <<"Create ", toLowerCase(file.description)>>)

RECURSIVE CheckRequired(_, _, _)
CheckRequired(r, tree, i) ==
  IF i > Len(requiredFiles) THEN Done(r)
  ELSE LET file     == requiredFiles[i]
           filePath == Join(RepoPath, <<file.path>>)
           r1       == IncFilesChecked(r)
       IN IF ~pathExists(tree.files[file.path])
          THEN CheckRequired(
                 SetPassed(PushError(r1, MissingRequiredError(file)), CoreFiles, FALSE),
                 tree, i + 1)
          ELSE LET c == validateFileContent(r1, tree, filePath)
               IN IF c.err # Undefined THEN c
                  ELSE CheckRequired(c.res, tree, i + 1)

ChangelogTemplate ==
  <<"# ", "Changelog", "\n", "All notable changes to this project will be documented in this file.",
    "\n", "## [Unreleased]", "\n">>

ContributingTemplate ==
  <<"# ", "Contributing to this SDK Collection", "\n", "Thank you for your interest in contributing!",
    "\n", "## Getting Started", "\n">>

SecurityTemplate ==
  <<"# ", "Security Policy", "\n", "## Reporting Security Vulnerabilities", "\n",
    "## Supported Versions", "\n">>

getFileTemplate_Fallback(fileName) ==
  <<"# ", fileName, "\n", "\n", "Content for ", fileName>>

getFileTemplate(fileName) ==
  CASE fileName = "CONTRIBUTING.md" -> ContributingTemplate
    [] fileName = "SECURITY.md"     -> SecurityTemplate
    [] fileName = "CHANGELOG.md"    -> ChangelogTemplate
    [] OTHER -> <<"# ", fileName, "\n", "\n", "Content for ", fileName>>

OptionalRecommendation(file) ==
  <<"Consider adding ", file.path, " for better ", toLowerCase(file.description)>>

OptionalIssue_TargetsReadme(file) ==
  Issue("create-file", <<"README.md">>,
        <<"Create ", toLowerCase(file.description)>>,
        <<"Generate template ", file.path>>,
        getFileTemplate(file.path))

OptionalIssue(file) ==
  Issue("create-file", <<file.path>>,
        <<"Create ", toLowerCase(file.description)>>,
        <<"Generate template ", file.path>>,
        getFileTemplate(file.path))

RECURSIVE CheckOptional(_, _, _)
CheckOptional(r, tree, i) ==
  IF i > Len(optionalFiles) THEN r
  ELSE LET file == optionalFiles[i]
       IN IF ~pathExists(tree.files[file.path])
          THEN CheckOptional(
                 PushFixable(PushRecommendation(r, OptionalRecommendation(file)),
                             OptionalIssue(file)),
                 tree, i + 1)
          ELSE CheckOptional(r, tree, i + 1)

validateCoreFiles(r, tree) ==
  LET r0  == SetCategory(r, CoreFiles, TRUE, <<>>)
      req == CheckRequired(r0, tree, 1)
  IN IF req.err # Undefined THEN req
     ELSE LET r1 == CheckOptional(req.res, tree, 1)
          IN Done(SetMessage(r1, CoreFiles,
                    IF CatOf(r1, CoreFiles).passed
                    THEN <<"All required files present">>
                    ELSE <<"Missing required files">>))

----------------------------------------------------------------------------
(* Docker Setup *)

DockerSetup == "Docker Setup"

getDockerfileTemplate ==
  <<"# SDK Development Container", "\n", "FROM ", "ubuntu:22.04", "\n",
    "ENV DEBIAN_FRONTEND=noninteractive", "\n",
    "RUN apt-get update && apt-get install -y build-essential git curl", "\n",
    "WORKDIR /workspace", "\n",
    "RUN useradd -m -s /bin/bash developer", "\n",
    "USER ", "developer", "\n", "CMD [\"/bin/bash\"]", "\n">>

MissingDockerfileError ==
  Finding(<<"Missing Dockerfile - required for SDK containers">>, Undefined,
          "docker", <<"Create Dockerfile for your SDK environment">>)

DockerfileIssue_WritesReadme ==
  Issue("create-file", <<"README.md">>, <<"Create basic Dockerfile template">>,
        <<"Generate Dockerfile template">>, getDockerfileTemplate)

DockerfileIssue ==
  Issue("create-dockerfile", Undefined, <<"Create basic Dockerfile template">>,
        <<"Generate Dockerfile template">>, getDockerfileTemplate)

HasFromInstruction_Always(content) == TRUE

HasFromInstruction(content) == Includes(content, <<"FROM ">>)

MissingFromError ==
  Finding(<<"Dockerfile missing FROM instruction">>, <<"Dockerfile">>, "docker",
          Undefined)

RunsAsRoot(content) ==
  Includes(content, <<"USER ", "root">>) /\ ~Includes(content, <<"USER ">>)

RootWarning ==
  Finding(<<"Dockerfile runs as root - consider using non-root user for security">>,
          <<"Dockerfile">>, "security", Undefined)

CheckDevcontainer_Always(r, tree) ==
  PushRecommendation(r,
    <<"Consider adding .devcontainer/devcontainer.json for VS Code development">>)

CheckDevcontainer(r, tree) ==
  IF ~pathExists(tree.files[DevcontainerName])
  THEN PushRecommendation(r,
         <<"Consider adding .devcontainer/devcontainer.json for VS Code development">>)
  ELSE r

CheckDockerfileContent(r, content) ==
  LET r1 == IF ~HasFromInstruction(content)
            THEN SetPassed(PushError(r, MissingFromError), DockerSetup, FALSE)
            ELSE r
      r2 == IF RunsAsRoot(content) THEN PushWarning(r1, RootWarning) ELSE r1
  IN IF CatOf(r2, DockerSetup).passed
     THEN SetMessage(r2, DockerSetup, <<"Dockerfile present and valid">>)
     ELSE r2

validateDockerSetup(r, tree) ==
  LET r0   == IncFilesChecked(SetCategory(r, DockerSetup, TRUE, <<>>))
      node == tree.files["Dockerfile"]
  IN IF ~pathExists(node)
     THEN LET r1 == SetMessage(
                      SetPassed(PushError(r0, MissingDockerfileError), DockerSetup, FALSE),
                      DockerSetup, <<"Missing Dockerfile">>)
          IN Done(CheckDevcontainer(PushFixable(r1, DockerfileIssue), tree))
     ELSE IF ~CanRead(node)
          THEN Throw(r0, ReadError(Join(RepoPath, <<"Dockerfile">>)))
          ELSE Done(CheckDevcontainer(CheckDockerfileContent(r0, node.content), tree))

----------------------------------------------------------------------------
(* yaml.parse on a document given as its sequence of lines *)

SyntaxErrorLines == {"{ unclosed"}
ScalarLines      == {"just text"}

LineKey(line) ==
  CASE line \in {"name: CI"}                   -> "name"
    [] line \in {"on: push", "on:"}            -> "on"
    [] line \in {"jobs: {build: {}}", "jobs:"} -> "jobs"
    [] OTHER                                   -> ""

(* The value of a "key: value" line: an empty value is null. *)
LineValue(line) ==
  IF line \in {"on:", "jobs:"} THEN "null" ELSE "truthy"

YamlKeys(content) == {LineKey(content[i]) : i \in 1..Len(content)}

YamlParse(content) ==
  IF \E i \in 1..Len(content) : content[i] \in SyntaxErrorLines
  THEN [err |-> <<"Flow map must end with a }">>, kind |-> "none", lines |-> <<>>]
  ELSE IF content = <<>>
  THEN [err |-> Undefined, kind |-> "null", lines |-> <<>>]
  ELSE IF Len(content) = 1 /\ content[1] \in ScalarLines
  THEN [err |-> Undefined, kind |-> "scalar", lines |-> <<>>]
  ELSE IF \E i \in 1..Len(content) : LineKey(content[i]) = ""
  THEN [err |-> <<"Implicit map keys need to be followed by map values">>,
        kind |-> "none", lines |-> <<>>]
  ELSE IF \E i, j \in 1..Len(content) : i # j /\ LineKey(content[i]) = LineKey(content[j])
  THEN [err |-> <<"Map keys must be unique">>, kind |-> "none", lines |-> <<>>]
  ELSE [err |-> Undefined, kind |-> "map", lines |-> content]

(* workflow.key : undefined when the document is not a mapping or has no    *)
(* such key.  Called only on a document that is not null.                   *)
Property(doc, key) ==
  IF doc.kind = "map" /\ key \in YamlKeys(doc.lines)
  THEN LineValue(doc.lines[CHOOSE i \in 1..Len(doc.lines) : LineKey(doc.lines[i]) = key])
  ELSE "undefined"

Falsy(v) == v \in {"undefined", "null"}

----------------------------------------------------------------------------
(* GitHub Workflows *)

GitHubWorkflows == "GitHub Workflows"

workflowsDir == Join(RepoPath, <<".github/workflows">>)

MissingWorkflowsDirError ==
  Finding(<<"Missing .github/workflows directory - required for CI/CD automation">>,
          Undefined, "workflows",
          <<"Create GitHub Actions workflows for automated building and SDK updates">>)

NoWorkflowFilesError ==
  Finding(<<"No GitHub Actions workflow files found">>, Undefined, "workflows",
          <<"Add build-and-notify.yml workflow for SDK automation">>)

NamingWarning ==
  Finding(<<"No build-and-notify workflow found - SDK updates may not be automated">>,
          Undefined, "workflows",
          <<"Add workflow that notifies defense-builders-sdk on successful builds">>)

IsYml(f) == EndsWith(f, <<".yml">>) \/ EndsWith(f, <<".yaml">>)

IsYmlEntry(entry) == IsYml(entry.name)

NoWorkflowFiles_Never(ymlFiles) == FALSE

NoWorkflowFiles(ymlFiles) == Len(ymlFiles) = 0

hasNotifyWorkflow_Every(ymlFiles) ==
  \A i \in 1..Len(ymlFiles) :
     \/ Includes(ymlFiles[i].name, <<"build">>)
     \/ Includes(ymlFiles[i].name, <<"notify">>)
     \/ Includes(ymlFiles[i].name, <<"sdk">>)

hasNotifyWorkflow(ymlFiles) ==
  \E i \in 1..Len(ymlFiles) :
     \/ Includes(ymlFiles[i].name, <<"build">>)
     \/ Includes(ymlFiles[i].name, <<"notify">>)
     \/ Includes(ymlFiles[i].name, <<"sdk">>)

WorkflowError(message, workflowPath) ==
  Finding(message, workflowPath, "workflows", Undefined)

(* The two key checks chained with else-if. *)
CheckWorkflow_ElseIf(r, workflowFile, workflowPath, doc) ==
  IF Falsy(Property(doc, "on"))
  THEN SetPassed(PushError(r, WorkflowError(
         <<"Workflow ">> \o workflowFile \o <<" missing trigger configuration">>,
         workflowPath)), GitHubWorkflows, FALSE)
  ELSE IF Falsy(Property(doc, "jobs"))
  THEN SetPassed(PushError(r, WorkflowError(
         <<"Workflow ">> \o workflowFile \o <<" missing jobs configuration">>,
         workflowPath)), GitHubWorkflows, FALSE)
  ELSE r

(* A complete document marks the category as passed again. *)
CheckWorkflow_ResetsPassed(r, workflowFile, workflowPath, doc) ==
  LET r1 == IF Falsy(Property(doc, "on"))
            THEN SetPassed(PushError(r, WorkflowError(
                   <<"Workflow ">> \o workflowFile \o <<" missing trigger configuration">>,
                   workflowPath)), GitHubWorkflows, FALSE)
            ELSE r
      r2 == IF Falsy(Property(doc, "jobs"))
            THEN SetPassed(PushError(r1, WorkflowError(
                   <<"Workflow ">> \o workflowFile \o <<" missing jobs configuration">>,
                   workflowPath)), GitHubWorkflows, FALSE)
            ELSE r1
  IN IF Falsy(Property(doc, "on")) \/ Falsy(Property(doc, "jobs"))
     THEN r2
     ELSE SetPassed(r2, GitHubWorkflows, TRUE)

(* The body of the try block for one parsed document. *)
CheckWorkflow(r, workflowFile, workflowPath, doc) ==
  LET r1 == IF Falsy(Property(doc, "on"))
            THEN SetPassed(PushError(r, WorkflowError(
                   <<"Workflow ">> \o workflowFile \o <<" missing trigger configuration">>,
                   workflowPath)), GitHubWorkflows, FALSE)
            ELSE r
  IN IF Falsy(Property(doc, "jobs"))
     THEN SetPassed(PushError(r1, WorkflowError(
            <<"Workflow ">> \o workflowFile \o <<" missing jobs configuration">>,
            workflowPath)), GitHubWorkflows, FALSE)
     ELSE r1

(* The catch block of the loop body. *)
InvalidYaml(r, workflowFile, workflowPath, message) ==
  SetPassed(PushError(r, WorkflowError(
      <<"Invalid YAML in ">> \o workflowFile \o <<": ">> \o message, workflowPath)),
    GitHubWorkflows, FALSE)

NullPropertyError == <<"Cannot read properties of null (reading 'on')">>

(* One iteration of the loop, after readFile succeeded. *)
ValidateWorkflowSyntax(r, workflowFile, workflowPath, content) ==
  LET doc == YamlParse(content)
  IN IF doc.err # Undefined
     THEN InvalidYaml(r, workflowFile, workflowPath, doc.err)
     ELSE IF doc.kind = "null"
     THEN InvalidYaml(r, workflowFile, workflowPath, NullPropertyError)
     ELSE CheckWorkflow(r, workflowFile, workflowPath, doc)

(* The loop as it would be with the try around it instead of inside it. *)
RECURSIVE WorkflowLoop_StopAtInvalid(_, _, _)
WorkflowLoop_StopAtInvalid(r, ymlFiles, i) ==
  IF i > Len(ymlFiles) THEN Done(r)
  ELSE LET workflowFile == ymlFiles[i].name
           workflowPath == Join(workflowsDir, workflowFile)
           node         == ymlFiles[i].node
       IN IF ~CanRead(node) THEN Throw(r, ReadError(workflowPath))
          ELSE IF YamlParse(node.content).err # Undefined
          THEN Done(ValidateWorkflowSyntax(r, workflowFile, workflowPath, node.content))
          ELSE WorkflowLoop_StopAtInvalid(
                 ValidateWorkflowSyntax(r, workflowFile, workflowPath, node.content),
                 ymlFiles, i + 1)

RECURSIVE WorkflowLoop(_, _, _)
WorkflowLoop(r, ymlFiles, i) ==
  IF i > Len(ymlFiles) THEN Done(r)
  ELSE LET workflowFile == ymlFiles[i].name
           workflowPath == Join(workflowsDir, workflowFile)
           node         == ymlFiles[i].node
       IN IF ~CanRead(node) THEN Throw(r, ReadError(workflowPath))
          ELSE WorkflowLoop(
                 ValidateWorkflowSyntax(r, workflowFile, workflowPath, node.content),
                 ymlFiles, i + 1)

validateGitHubWorkflows(r, tree) ==
  LET r0 == IncFilesChecked(SetCategory(r, GitHubWorkflows, TRUE, <<>>))
      wf == tree.workflows
  IN IF wf.st = "absent"
     THEN Done(SetMessage(
            SetPassed(PushError(r0, MissingWorkflowsDirError), GitHubWorkflows, FALSE),
            GitHubWorkflows, <<"No workflows found">>))
     ELSE IF wf.st # "dir" THEN Throw(r0, ReaddirError(workflowsDir))
     ELSE LET ymlFiles == SelectSeq(wf.entries, IsYmlEntry)
          IN IF NoWorkflowFiles(ymlFiles)
             THEN Done(SetMessage(
                    SetPassed(PushError(r0, NoWorkflowFilesError), GitHubWorkflows, FALSE),
                    GitHubWorkflows, <<"No workflow files">>))
             ELSE LET r1 == IF ~hasNotifyWorkflow(ymlFiles)
                            THEN PushWarning(r0, NamingWarning) ELSE r0
                      lp == WorkflowLoop(r1, ymlFiles, 1)
                  IN IF lp.err # Undefined THEN lp
                     ELSE IF CatOf(lp.res, GitHubWorkflows).passed
                     THEN Done(SetMessage(lp.res, GitHubWorkflows,
                            <<"Found ", ToString(Len(ymlFiles)), " valid workflow(s)">>))
                     ELSE lp

----------------------------------------------------------------------------
(* Documentation and Security *)

Documentation == "Documentation"
Security == "Security"

validateDocumentation_ExamplesMustBeDir(r, tree) ==
  LET r0 == SetCategory(r, Documentation, TRUE, <<"Basic documentation present">>)
      checkExamples(x) ==
        IF tree.examples.st # "dir"
        THEN PushRecommendation(x,
               <<"Consider adding examples/ directory with sample code and usage examples">>)
        ELSE x
  IN IF tree.docs.st = "absent"
     THEN Done(checkExamples(PushRecommendation(r0,
            <<"Consider creating a docs/ directory for additional documentation">>)))
     ELSE IF tree.docs.st # "dir"
     THEN Throw(r0, ReaddirError(Join(RepoPath, <<"docs">>)))
     ELSE Done(checkExamples(PushRecommendation(r0,
            <<"Good practice: Found ", ToString(tree.docs.count),
              " documentation files in docs/">>)))

validateDocumentation(r, tree) ==
  LET r0 == SetCategory(r, Documentation, TRUE, <<"Basic documentation present">>)
      checkExamples(x) ==
        IF tree.examples.st = "absent"
        THEN PushRecommendation(x,
               <<"Consider adding examples/ directory with sample code and usage examples">>)
        ELSE x
  IN IF tree.docs.st = "absent"
     THEN Done(checkExamples(PushRecommendation(r0,
            <<"Consider creating a docs/ directory for additional documentation">>)))
     ELSE IF tree.docs.st # "dir"
     THEN Throw(r0, ReaddirError(Join(RepoPath, <<"docs">>)))
     ELSE Done(checkExamples(PushRecommendation(r0,
            <<"Good practice: Found ", ToString(tree.docs.count),
              " documentation files in docs/">>)))

validateSecurity(r, tree) ==
  LET r0 == SetCategory(r, Security, TRUE, <<>>)
      r1 == IF ~pathExists(tree.files["SECURITY.md"])
            THEN PushWarning(r0, Finding(<<"No SECURITY.md file found">>, Undefined,
                   "security", <<"Add security policy for responsible disclosure">>))
            ELSE r0
  IN Done(SetMessage(r1, Security, <<"Basic security checks passed">>))

----------------------------------------------------------------------------
(* validateRepository *)

CategoryOrder == <<CoreFiles, DockerSetup, GitHubWorkflows, Documentation, Security>>

(* The awaits enclosed by the try block, in program order, and what        *)
(* follows each of them.                                                   *)
TryBlock == {"core", "docker", "workflows", "documentation", "security"}

NextStep_SkipDocumentation(step) ==
  CASE step = "core"          -> "docker"
    [] step = "docker"        -> "workflows"
    [] step = "workflows"     -> "security"
    [] step = "documentation" -> "security"
    [] step = "security"      -> "final"

NextStep(step) ==
  CASE step = "core"          -> "docker"
    [] step = "docker"        -> "workflows"
    [] step = "workflows"     -> "documentation"
    [] step = "documentation" -> "security"
    [] step = "security"      -> "final"

IsValidOf_AlwaysTrue(r) == TRUE

IsValidOf(r) == Len(r.errors) = 0

CatchBlock_NoRecord(r, error) == r

CatchBlock(r, error) ==
  PushError(r, Finding(<<"Validation failed: ">> \o error, Undefined, "system",
                       Undefined))

(* The five categories in sequence from a new report, as one function of   *)
(* the tree.                                                               *)
validateRepository(tree) ==
  LET o1 == validateCoreFiles(EmptyResults, tree)
      o2 == IF o1.err = Undefined THEN validateDockerSetup(o1.res, tree) ELSE o1
      o3 == IF o2.err = Undefined THEN validateGitHubWorkflows(o2.res, tree) ELSE o2
      o4 == IF o3.err = Undefined THEN validateDocumentation(o3.res, tree) ELSE o3
      o5 == IF o4.err = Undefined THEN validateSecurity(o4.res, tree) ELSE o4
  IN IF o5.err = Undefined
     THEN [o5.res EXCEPT !.isValid = IsValidOf(o5.res)]
     ELSE CatchBlock(o5.res, o5.err)

(* this.results = { ... } allocates a new report object: its identity,     *)
(* given the identity of the object the engine held before.                *)
NewObject_Same(current) == current

NewObject(current) == IF current = 1 THEN 2 ELSE 1

NoReport == [ref |-> 0, value |-> EmptyResults]

(* A write through this.results, seen through every reference to the same  *)
(* object: the caller's reference to a returned report is one of them.     *)
Store(object, newResults) ==
  /\ results' = newResults
  /\ held' = IF held.ref = object THEN [held EXCEPT !.value = newResults] ELSE held

(* return this.results: the caller now holds the engine's report object.   *)
StoreAndReturn(newResults) ==
  /\ results' = newResults
  /\ held' = [ref |-> ref, value |-> newResults]

(* The await of one category resolves or rejects. *)
Settle(step, out) ==
  IF out.err = Undefined
  THEN /\ Store(ref, out.res)
       /\ pc' = NextStep(step)
       /\ caught' = caught
  ELSE IF step \in TryBlock
  THEN /\ StoreAndReturn(CatchBlock(out.res, out.err))
       /\ pc' = "returned"
       /\ caught' = out.err
  ELSE /\ Store(ref, out.res)
       /\ pc' = "raised"
       /\ caught' = out.err

(* validateRepository is entered: by the command once the path exists, by  *)
(* a program using the engine as often as it likes.                        *)
Begin ==
  /\ \/ pc = "idle" /\ (caller = "cli" => fs.root = "dir")
     \/ pc \in {"returned", "fixed"} /\ caller = "api"
  /\ ref' = NewObject(ref)
  /\ Store(ref', EmptyResults)
  /\ caught' = Undefined
  /\ pc' = "core"
  /\ UNCHANGED <<fs, caller, options, fixLog, cli, second>>

(* With autoFix set, the category writes the optional files it misses. *)
StepCoreFiles_WritesWhenAutoFix ==
  /\ pc = "core"
  /\ Settle("core", validateCoreFiles(results, fs))
  /\ fs' = IF options.fix
           THEN [fs EXCEPT !.files["SECURITY.md"] = Text(getFileTemplate("SECURITY.md"))]
           ELSE fs
  /\ UNCHANGED <<caller, options, ref, fixLog, cli, second>>

StepCoreFiles ==
  /\ pc = "core"
  /\ Settle("core", validateCoreFiles(results, fs))
  /\ UNCHANGED <<fs, caller, options, ref, fixLog, cli, second>>

StepDockerSetup ==
  /\ pc = "docker"
  /\ Settle("docker", validateDockerSetup(results, fs))
  /\ UNCHANGED <<fs, caller, options, ref, fixLog, cli, second>>

StepGitHubWorkflows ==
  /\ pc = "workflows"
  /\ Settle("workflows", validateGitHubWorkflows(results, fs))
  /\ UNCHANGED <<fs, caller, options, ref, fixLog, cli, second>>

StepDocumentation ==
  /\ pc = "documentation"
  /\ Settle("documentation", validateDocumentation(results, fs))
  /\ UNCHANGED <<fs, caller, options, ref, fixLog, cli, second>>

StepSecurity ==
  /\ pc = "security"
  /\ Settle("security", validateSecurity(results, fs))
  /\ UNCHANGED <<fs, caller, options, ref, fixLog, cli, second>>

Return ==
  /\ pc = "final"
  /\ StoreAndReturn([results EXCEPT !.isValid = IsValidOf(results)])
  /\ pc' = "returned"
  /\ UNCHANGED <<fs, caught, caller, options, ref, fixLog, cli, second>>

----------------------------------------------------------------------------
(* A second validateRepository call on the same engine, entered while the  *)
(* first is suspended at an await                                          *)

NotStarted == [pc |-> "idle", caught |-> Undefined]

Suspended == {"core", "docker", "workflows", "documentation", "security", "final"}

SecondBegin ==
  /\ pc \in Suspended
  /\ second.pc = "idle"
  /\ ref' = NewObject(ref)
  /\ Store(ref', EmptyResults)
  /\ second' = [pc |-> "core", caught |-> Undefined]
  /\ UNCHANGED <<fs, pc, caught, caller, options, fixLog, cli>>

Category(step, r, tree) ==
  CASE step = "core"          -> validateCoreFiles(r, tree)
    [] step = "docker"        -> validateDockerSetup(r, tree)
    [] step = "workflows"     -> validateGitHubWorkflows(r, tree)
    [] step = "documentation" -> validateDocumentation(r, tree)
    [] step = "security"      -> validateSecurity(r, tree)

(* One await of the second call resolves or rejects; every access goes     *)
(* through this.results as it is then.                                     *)
SecondStep ==
  /\ second.pc \in TryBlock
  /\ LET out == Category(second.pc, results, fs)
     IN IF out.err = Undefined
        THEN /\ Store(ref, out.res)
             /\ second' = [second EXCEPT !.pc = NextStep(second.pc)]
        ELSE /\ Store(ref, CatchBlock(out.res, out.err))
             /\ second' = [pc |-> "returned", caught |-> out.err]
  /\ UNCHANGED <<fs, pc, caught, caller, options, ref, fixLog, cli>>

SecondReturn ==
  /\ second.pc = "final"
  /\ Store(ref, [results EXCEPT !.isValid = IsValidOf(results)])
  /\ second' = [second EXCEPT !.pc = "returned"]
  /\ UNCHANGED <<fs, pc, caught, caller, options, ref, fixLog, cli>>

----------------------------------------------------------------------------
(* applyFix *)

(* Outcomes of fs.writeFile on a path that can hold a file. *)
WriteOutcomes == {"ok", "EACCES"}

WriteError(p, io) ==
  IF io = "EISDIR"
  THEN <<"EISDIR: illegal operation on a directory, open ">> \o p
  ELSE <<"EACCES: permission denied, open ">> \o p

ensureDir(tree) == [tree EXCEPT !.root = "dir"]

(* The new content is added to what the file held. *)
writeFile_Append(tree, fileName, content, io) ==
  LET outcome == IF tree.files[fileName[1]].st = "unreadable" THEN "EISDIR" ELSE io
  IN IF outcome = "ok"
     THEN [fs |-> [tree EXCEPT !.files[fileName[1]] = Text(@.content \o content)],
           err |-> Undefined]
     ELSE [fs |-> tree, err |-> WriteError(Join(RepoPath, fileName), outcome)]

(* writeFile replaces the whole content; it fails on a path that is a      *)
(* directory, and when the environment refuses the write.                  *)
writeFile(tree, fileName, content, io) ==
  LET outcome == IF tree.files[fileName[1]].st = "unreadable" THEN "EISDIR" ELSE io
  IN IF outcome = "ok"
     THEN [fs |-> [tree EXCEPT !.files[fileName[1]] = Text(content)], err |-> Undefined]
     ELSE [fs |-> tree, err |-> WriteError(Join(RepoPath, fileName), outcome)]

createFile_NoWrite(tree, fileName, content, io) ==
  [fs |-> ensureDir(tree), err |-> Undefined]

createFile(tree, fileName, content, io) ==
  writeFile(ensureDir(tree), fileName, content, io)

applyFix_DefaultCreatesFile(tree, issue, io) ==
  CASE issue.type = "create-dockerfile" ->
         createFile(tree, <<"Dockerfile">>, issue.template, io)
    [] OTHER -> createFile(tree, issue.file, issue.template, io)

applyFix(tree, issue, io) ==
  CASE issue.type = "create-file" ->
         createFile(tree, issue.file, issue.template, io)
    [] issue.type = "create-dockerfile" ->
         createFile(tree, <<"Dockerfile">>, issue.template, io)
    [] OTHER -> [fs |-> tree, err |-> <<"Unknown fix type: ", issue.type>>]

(* Issues a program builds itself rather than taking them from a report.   *)
OwnIssues ==
  { Issue("create-file", <<"README.md">>, <<"Replace README">>, <<"Write README">>,
          <<"# ", "Title", "\n">>),
    Issue("delete-file", <<"LICENSE">>, <<"Remove license">>, <<"Delete LICENSE">>,
          <<"none">>) }

Range(seq) == { seq[i] : i \in 1..Len(seq) }

Attempt(issue, out) == [issue |-> issue, err |-> out.err]

(* A program using the engine calls applyFix between two validations.      *)
ApplyFix ==
  /\ caller = "api"
  /\ pc \in {"returned", "fixed"}
  /\ Len(fixLog) < MaxFixes
  /\ \E issue \in Range(results.fixableIssues) \cup OwnIssues, io \in WriteOutcomes :
       LET out == applyFix(fs, issue, io)
       IN /\ fs' = out.fs
          /\ fixLog' = Append(fixLog, Attempt(issue, out))
  /\ pc' = "fixed"
  /\ UNCHANGED <<results, caught, caller, options, ref, held, cli, second>>

----------------------------------------------------------------------------
(* The validate command *)

(* fixedCount++ after an application that did not throw. *)
CountFixed_Always(count, out) == count + 1

CountFixed(count, out) == IF out.err = Undefined THEN count + 1 ELSE count

ExitCode_ZeroOrOne(r) == IF r.isValid THEN 0 ELSE 1

ExitCode(r) == IF r.isValid THEN 0 ELSE IF Len(r.errors) > 0 THEN 2 ELSE 1

(* The path given to the command does not exist. *)
CliPathMissing ==
  /\ caller = "cli"
  /\ pc = "idle"
  /\ fs.root # "dir"
  /\ caught' = <<"Path does not exist: ">> \o RepoPath
  /\ cli' = [cli EXCEPT !.exitCode = 1]
  /\ pc' = "exited"
  /\ UNCHANGED <<fs, results, caller, options, ref, held, fixLog, second>>

(* One iteration of the loop of autoFixIssues. *)
AutoFixStep ==
  /\ caller = "cli"
  /\ pc \in {"returned", "autofix"}
  /\ options.fix
  /\ Len(fixLog) < Len(results.fixableIssues)
  /\ \E io \in WriteOutcomes :
       LET issue == results.fixableIssues[Len(fixLog) + 1]
           out   == applyFix(fs, issue, io)
       IN /\ fs' = out.fs
          /\ fixLog' = Append(fixLog, Attempt(issue, out))
          /\ cli' = [cli EXCEPT !.fixedCount = CountFixed(@, out)]
  /\ pc' = "autofix"
  /\ UNCHANGED <<results, caught, caller, options, ref, held, second>>

(* process.exit at the end of execute. *)
CliExit ==
  /\ caller = "cli"
  /\ pc \in {"returned", "autofix"}
  /\ options.fix => Len(fixLog) = Len(results.fixableIssues)
  /\ cli' = [cli EXCEPT !.exitCode = ExitCode(results)]
  /\ pc' = "exited"
  /\ UNCHANGED <<fs, results, caught, caller, options, ref, held, fixLog, second>>

----------------------------------------------------------------------------
(* Target directories *)

VersionFiles ==
  { AbsentFile, UnreadableFile,
    Text(<<"1", ".", "0", ".", "0">>),
    Text(<<"1", ".", "2", ".", "3", ".", "4">>),
    Text(<<"1", "0", ".", "2", ".", "3", "\n">>),
    Text(<<"1", ".", "0">>),
    Text(<<"v", "1", ".", "0", ".", "0">>),
    Text(<<"\\", "d", "\\", ".", "\\", "d", "\\", ".", "\\", "d">>) }

ReadmeFiles ==
  { AbsentFile, UnreadableFile,
    Text(<<>>),
    Text(<<"# ", "Title", "\n">>),
    Text(<<"prose">>),
    Text(<<"# ", "Title", "\n", "prose">>) }

LicenseFiles == { AbsentFile, UnreadableFile, Text(<<"MIT License">>) }

DockerFiles ==
  { AbsentFile, UnreadableFile,
    Text(<<>>),
    Text(<<"FROM ", "ubuntu:22.04", "\n">>),
    Text(<<"FROM ", "ubuntu:22.04", "\n", "USER ", "root", "\n">>),
    Text(<<"FROM ", "ubuntu:22.04", "\n", "USER ", "root", "\n", "USER ", "developer", "\n">>),
    Text(<<"FROM ", "ubuntu:22.04", "\n", "USER ", "developer", "\n">>),
    Text(<<"USER ", "root", "\n">>),
    Text(getDockerfileTemplate) }

YmlNames == { <<"build", ".yml">>, <<"ci", ".yaml">>, <<"sdk", "-", "notify", ".yml">> }
OtherNames == { <<"notes", ".txt">>, <<"ci", ".yml", ".bak">> }

WorkflowFull == <<"name: CI", "on: push", "jobs: {build: {}}">>

YmlFiles ==
  { UnreadableFile,
    Text(WorkflowFull),
    Text(<<"name: CI", "on: push">>),
    Text(<<"name: CI", "jobs: {build: {}}">>),
    Text(<<"name: CI", "on:", "jobs: {build: {}}">>),
    Text(<<"name: CI", "{ unclosed">>),
    Text(<<"just text">>),
    Text(<<>>) }

Entries ==
  {[name |-> n, node |-> f] : n \in YmlNames, f \in YmlFiles}
    \cup {[name |-> n, node |-> Text(<<"text">>)] : n \in OtherNames}

(* readdir lists each name once, in no particular order. *)
Listings ==
  UNION { {l \in [1..n -> Entries] :
             \A i, j \in 1..n : i # j => l[i].name # l[j].name} : n \in 0..MaxFiles }

Dir(entries) == [st |-> "dir", entries |-> entries]
NoDir == [st |-> "absent", entries |-> <<>>]
NotDir == [st |-> "file", entries |-> <<>>]

WorkflowDirs == {NoDir, NotDir} \cup {Dir(l) : l \in Listings}

DocsDirs ==
  { [st |-> "absent", count |-> 0], [st |-> "file", count |-> 0] }
    \cup { [st |-> "dir", count |-> n] : n \in 0..MaxDocs }

ExamplesDirs == { [st |-> s] : s \in {"absent", "dir", "file"} }

Present(name) ==
  IF name \in OptionalNames THEN Text(getFileTemplate(name)) ELSE Text(<<"{}">>)

RootFiles(version, readme, license, optional, dockerfile, devcontainer) ==
  [name \in RootNames |->
     CASE name = "VERSION.txt" -> version
       [] name = "README.md"   -> readme
       [] name = "LICENSE"     -> license
       [] name = "Dockerfile"  -> dockerfile
       [] name = DevcontainerName -> IF devcontainer THEN Present(name) ELSE AbsentFile
       [] OTHER -> IF name \in optional THEN Present(name) ELSE AbsentFile]

Tree(files, workflows, docs, examples) ==
  [root |-> "dir", files |-> files, workflows |-> workflows, docs |-> docs,
   examples |-> examples]

GoodVersion == Text(<<"1", ".", "0", ".", "0">>)
GoodReadme  == Text(<<"# ", "Title", "\n", "prose">>)
GoodLicense == Text(<<"MIT License">>)
GoodDocker  == Text(getDockerfileTemplate)
GoodWorkflows == Dir(<< [name |-> <<"sdk", "-", "notify", ".yml">>, node |-> Text(WorkflowFull)] >>)

(* The few shapes every part of the tree takes while another part varies. *)
CoreSmall ==
  { <<GoodVersion, GoodReadme, GoodLicense, OptionalNames>>,
    <<AbsentFile, AbsentFile, AbsentFile, {}>>,
    <<UnreadableFile, AbsentFile, GoodLicense, {}>> }

DockerSmall == { <<GoodDocker, TRUE>>, <<AbsentFile, FALSE>> }

WorkflowSmall == { GoodWorkflows, NoDir }

DocsSmall ==
  { <<[st |-> "dir", count |-> 1], [st |-> "dir"]>>,
    <<[st |-> "absent", count |-> 0], [st |-> "absent"]>> }

CoreTiny ==
  { <<GoodVersion, GoodReadme, GoodLicense, OptionalNames>>,
    <<AbsentFile, UnreadableFile, GoodLicense, {}>> }

DockerTiny == { <<GoodDocker, TRUE>> }

DocsTiny == { <<[st |-> "dir", count |-> 1], [st |-> "dir"]>> }

CoreRich ==
  { <<v, r, l, o>> : v \in VersionFiles, r \in ReadmeFiles, l \in LicenseFiles,
                     o \in SUBSET OptionalNames }

DockerRich == { <<d, dc>> : d \in DockerFiles, dc \in BOOLEAN }

DocsRich == { <<d, e>> : d \in DocsDirs, e \in ExamplesDirs }

Trees(core, docker, workflows, docs) ==
  { Tree(RootFiles(c[1], c[2], c[3], c[4], d[1], d[2]), w, x[1], x[2]) :
      c \in core, d \in docker, w \in workflows, x \in docs }

TargetRoots ==
  Trees(CoreRich, DockerSmall, WorkflowSmall, DocsSmall)
    \cup Trees(CoreSmall, DockerRich, WorkflowSmall, DocsSmall)
    \cup Trees(CoreTiny, DockerTiny, WorkflowDirs, DocsTiny)
    \cup Trees(CoreSmall, DockerSmall, WorkflowSmall, DocsRich)

(* Nothing exists at the path. *)
NoRoot ==
  [root |-> "absent", files |-> [name \in RootNames |-> AbsentFile],
   workflows |-> NoDir, docs |-> [st |-> "absent", count |-> 0],
   examples |-> [st |-> "absent"]]

(* Roots on which fixes are applied: what a fix can create is there or not. *)
FixCore ==
  { <<GoodVersion, GoodReadme, GoodLicense, o>> :
      o \in {{}, {"CONTRIBUTING.md", "CHANGELOG.md"}, OptionalNames} }
    \cup { <<GoodVersion, UnreadableFile, GoodLicense, {}>>,
           <<GoodVersion, GoodReadme, AbsentFile, {"CONTRIBUTING.md", "CHANGELOG.md"}>> }

FixRoots == Trees(FixCore, DockerSmall, {GoodWorkflows}, DocsTiny) \cup {NoRoot}

Init ==
  /\ \/ fs \in TargetRoots /\ caller = "cli" /\ options = [fix |-> FALSE]
     \/ fs \in FixRoots /\ caller = "cli" /\ options \in [fix : BOOLEAN]
     \/ fs \in FixRoots /\ caller = "api" /\ options = [fix |-> FALSE]
  /\ results = EmptyResults
  /\ pc = "idle"
  /\ caught = Undefined
  /\ ref = 1
  /\ held = NoReport
  /\ fixLog = <<>>
  /\ cli = [fixedCount |-> 0, exitCode |-> Undefined]
  /\ second = NotStarted

Next ==
  \/ Begin
  \/ StepCoreFiles
  \/ StepDockerSetup
  \/ StepGitHubWorkflows
  \/ StepDocumentation
  \/ StepSecurity
  \/ Return
  \/ ApplyFix
  \/ CliPathMissing
  \/ AutoFixStep
  \/ CliExit

Spec == Init /\ [][Next]_vars

(* A program that starts two calls on one engine without awaiting the      *)
(* first.                                                                  *)
InitOverlap ==
  /\ fs \in Trees(CoreSmall, DockerSmall, WorkflowSmall, DocsSmall)
  /\ caller = "overlap"
  /\ options = [fix |-> FALSE]
  /\ results = EmptyResults
  /\ pc = "idle"
  /\ caught = Undefined
  /\ ref = 1
  /\ held = NoReport
  /\ fixLog = <<>>
  /\ cli = [fixedCount |-> 0, exitCode |-> Undefined]
  /\ second = NotStarted

NextOverlap ==
  \/ Begin
  \/ StepCoreFiles
  \/ StepDockerSetup
  \/ StepGitHubWorkflows
  \/ StepDocumentation
  \/ StepSecurity
  \/ Return
  \/ SecondBegin
  \/ SecondStep
  \/ SecondReturn

SpecOverlap == InitOverlap /\ [][NextOverlap]_vars

----------------------------------------------------------------------------
(* Reads of the target directory that fail *)

Unreadable(tree, name) == tree.files[name].st = "unreadable"

CoreFault(tree) == \E name \in RequiredNames : Unreadable(tree, name)

DockerFault(tree) == Unreadable(tree, "Dockerfile")

WorkflowsFault(tree) ==
  \/ tree.workflows.st = "file"
  \/ /\ tree.workflows.st = "dir"
     /\ \E i \in 1..Len(tree.workflows.entries) :
          /\ IsYml(tree.workflows.entries[i].name)
          /\ tree.workflows.entries[i].node.st = "unreadable"

DocumentationFault(tree) == tree.docs.st = "file"

(* The position in CategoryOrder of the first category whose reads fail,   *)
(* 0 when every read of the pass succeeds.                                 *)
FaultIndex(tree) ==
  IF CoreFault(tree) THEN 1
  ELSE IF DockerFault(tree) THEN 2
  ELSE IF WorkflowsFault(tree) THEN 3
  ELSE IF DocumentationFault(tree) THEN 4
  ELSE 0

IsSystemError(e) == e.category = "system"

CategorySeq(r) == [i \in 1..Len(r.categories) |-> r.categories[i].name]

(* The report was computed from the tree as it is now: no fix has been     *)
(* attempted since the pass that produced it.                              *)
ReportCurrent ==
  /\ pc \notin {"fixed", "autofix"}
  /\ pc = "exited" => fixLog = <<>>

(* The category has run, in the current pass, on the tree as it is now.    *)
Ran(name) == name \in CatNames(results) /\ ReportCurrent

----------------------------------------------------------------------------
(* C1: in every report returned by validateRepository, on the normal path  *)
(* and on the path where an exception was caught, isValid is true if and   *)
(* only if the errors list is empty.                                       *)
C1_IsValidIffNoErrors ==
  pc = "returned" => (results.isValid <=> results.errors = <<>>)

C1_Witness ==
  /\ pc = "returned"
  /\ caught = Undefined
  /\ results.isValid
  /\ Len(results.categories) = 5

(* C2: validateRepository never raises; whenever a read of the pass fails   *)
(* the returned report holds exactly one Error of category 'system' and    *)
(* isValid is false (and no 'system' Error when every read succeeds).       *)
C2_FaultBecomesOneSystemError ==
  /\ pc # "raised"
  /\ pc = "returned" =>
       /\ Count(results.errors, IsSystemError)
            = (IF FaultIndex(fs) # 0 THEN 1 ELSE 0)
       /\ FaultIndex(fs) # 0 => ~results.isValid
       /\ (caught # Undefined) <=> (FaultIndex(fs) # 0)

C2_Witness ==
  /\ pc = "returned"
  /\ FaultIndex(fs) = 4
  /\ Count(results.errors, IsSystemError) = 1
  /\ ~results.isValid

(* C3 as stated: every returned report has a Category Status for each of   *)
(* the five categories, in order, whatever happened inside a category      *)
(* (failed rule, short-circuit, read fault).                               *)
C3_AllFiveWhateverHappens ==
  pc = "returned" => CategorySeq(results) = CategoryOrder

(* C3 amended: the categories run in the fixed order; a failed rule or a   *)
(* short-circuit never stops the later ones, so a pass without a read      *)
(* fault reports all five; a read fault aborts the pass and the report     *)
(* then has the categories up to and including the one whose read failed.  *)
C3_AllFiveUnlessReadFault ==
  pc = "returned" =>
    CategorySeq(results) =
      SubSeq(CategoryOrder, 1, IF FaultIndex(fs) = 0 THEN 5 ELSE FaultIndex(fs))

C3_Witness ==
  /\ pc = "returned"
  /\ FaultIndex(fs) = 0
  /\ fs.workflows.st = "absent"
  /\ ~CatOf(results, CoreFiles).passed
  /\ CategorySeq(results) = CategoryOrder

----------------------------------------------------------------------------
(* C4: when .github/workflows is absent, or is a directory holding no file *)
(* ending in .yml or .yaml, the GitHub Workflows category emits exactly    *)
(* one Error, sets its status to failed and emits no other finding; the    *)
(* pass goes on to Documentation, and to Security once Documentation has   *)
(* completed.                                                              *)
NoWorkflowToCheck(tree) ==
  \/ tree.workflows.st = "absent"
  \/ /\ tree.workflows.st = "dir"
     /\ \A i \in 1..Len(tree.workflows.entries) :
          /\ ~EndsWith(tree.workflows.entries[i].name, <<".yml">>)
          /\ ~EndsWith(tree.workflows.entries[i].name, <<".yaml">>)

C4_ShortCircuitStep ==
  (pc = "workflows" /\ NoWorkflowToCheck(fs)) =>
     /\ Len(results'.errors) = Len(results.errors) + 1
     /\ SubSeq(results'.errors, 1, Len(results.errors)) = results.errors
     /\ results'.errors[Len(results'.errors)].category = "workflows"
     /\ results'.warnings = results.warnings
     /\ results'.recommendations = results.recommendations
     /\ results'.fixableIssues = results.fixableIssues
     /\ ~CatOf(results', GitHubWorkflows).passed
     /\ pc' = "documentation"

C4_LaterCategoriesRun ==
  (pc = "returned" /\ Ran(GitHubWorkflows) /\ NoWorkflowToCheck(fs)) =>
     /\ Ran(Documentation)
     /\ ~DocumentationFault(fs) => Ran(Security)

----------------------------------------------------------------------------
(* Required files *)

Absent(tree, name) == tree.files[name].st = "absent"

ErrorsFor(r, name) == SelectSeq(r.errors, LAMBDA e : e.file = <<name>>)

(* The required file at position i is examined: no present file before it  *)
(* failed to be read.                                                      *)
Examined(tree, i) ==
  \A j \in 1..(i - 1) : ~Unreadable(tree, requiredFiles[j].path)

(* C5 as stated: for every absent required file the report has isValid =   *)
(* false and exactly one Error with that file name and a suggestion; Core  *)
(* Files is failed iff one of the three is absent.                         *)
C5_EveryAbsentRequiredFileReported ==
  pc = "returned" =>
    /\ \A name \in RequiredNames :
         Absent(fs, name) =>
           /\ ~results.isValid
           /\ Len(ErrorsFor(results, name)) = 1
           /\ ErrorsFor(results, name)[1].suggestion # Undefined
    /\ ~CatOf(results, CoreFiles).passed
         <=> (\E name \in RequiredNames : Absent(fs, name))

(* C5 amended: the same for every absent required file that is examined,   *)
(* that is, when no present file earlier in the order VERSION.txt,         *)
(* README.md, LICENSE fails to be read; an absent file after an unreadable *)
(* one gets no Error (the pass is aborted), isValid being false all the    *)
(* same; Core Files is failed iff an examined required file is absent.     *)
C5_ExaminedAbsentRequiredFileReported ==
  pc = "returned" =>
    /\ \A i \in 1..Len(requiredFiles) :
         LET name == requiredFiles[i].path IN
         /\ Absent(fs, name) => ~results.isValid
         /\ (Absent(fs, name) /\ Examined(fs, i)) =>
              /\ Len(ErrorsFor(results, name)) = 1
              /\ ErrorsFor(results, name)[1].suggestion # Undefined
              /\ ErrorsFor(results, name)[1].category = "core-files"
         /\ ~(Absent(fs, name) /\ Examined(fs, i)) =>
              Len(ErrorsFor(results, name)) = 0
    /\ ~CatOf(results, CoreFiles).passed
         <=> (\E i \in 1..Len(requiredFiles) :
                Absent(fs, requiredFiles[i].path) /\ Examined(fs, i))

C5_Witness ==
  /\ pc = "returned"
  /\ \A name \in RequiredNames : Absent(fs, name)
  /\ \A name \in RequiredNames : Len(ErrorsFor(results, name)) = 1
  /\ ~CatOf(results, CoreFiles).passed
  /\ ~results.isValid

----------------------------------------------------------------------------
(* The semantic-version pattern \d+\.\d+\.\d+(\.\d+)? *)

SemverBase == <<DigitPlus, Lit("."), DigitPlus, Lit("."), DigitPlus>>
SemverOpt  == <<Lit("."), DigitPlus>>
IsSemver(version) == RegExpTest(SemverBase, SemverOpt, version)

IsVersioningWarning(w) == w.category = "versioning"

(* C6: for a present VERSION.txt a versioning Warning is emitted iff the   *)
(* trimmed content is not digits.digits.digits with an optional fourth     *)
(* .digits group; then it is exactly one Warning, referencing that file,   *)
(* and the check adds no Error.                                            *)
C6_VersionWarningIffNotSemver ==
  (pc = "returned" /\ CanRead(fs.files["VERSION.txt"])) =>
    LET found == SelectSeq(results.warnings, IsVersioningWarning) IN
    /\ Len(found) = (IF IsSemver(Trim(fs.files["VERSION.txt"].content)) THEN 0 ELSE 1)
    /\ \A i \in 1..Len(found) : basename(found[i].file) = "VERSION.txt"
    /\ Len(ErrorsFor(results, "VERSION.txt")) = 0

----------------------------------------------------------------------------
(* Optional files *)

RecommendationsFor(r, name) ==
  SelectSeq(r.recommendations,
            LAMBDA m : Len(m) >= 2 /\ m[1] = "Consider adding " /\ m[2] = name)

IssuesFor(r, name) == SelectSeq(r.fixableIssues, LAMBDA i : i.file = <<name>>)

CannedDocument(name) ==
  CASE name = "CHANGELOG.md"    -> ChangelogTemplate
    [] name = "CONTRIBUTING.md" -> ContributingTemplate
    [] name = "SECURITY.md"     -> SecurityTemplate

OptionalFileReported(r, name) ==
  /\ Len(RecommendationsFor(r, name)) = 1
  /\ Len(IssuesFor(r, name)) = 1
  /\ IssuesFor(r, name)[1].type = "create-file"
  /\ IssuesFor(r, name)[1].template = CannedDocument(name)
  /\ Len(ErrorsFor(r, name)) = 0

OptionalFileSilent(r, name) ==
  /\ Len(RecommendationsFor(r, name)) = 0
  /\ Len(IssuesFor(r, name)) = 0
  /\ Len(ErrorsFor(r, name)) = 0

AllRequiredPresent(tree) == \A name \in RequiredNames : CanRead(tree.files[name])

(* C7 as stated: for each absent one of CHANGELOG.md, CONTRIBUTING.md and  *)
(* SECURITY.md, Core Files adds exactly one Recommendation and exactly one *)
(* create-file Fixable Issue with that file name and its canned document,  *)
(* no Error, and does not fail the category; for a present one, neither.   *)
C7_EveryAbsentOptionalFileReported ==
  (Ran(CoreFiles) /\ pc # "core") =>
    /\ \A name \in OptionalNames :
         IF Absent(fs, name) THEN OptionalFileReported(results, name)
         ELSE OptionalFileSilent(results, name)
    /\ (\A name \in RequiredNames : ~Absent(fs, name)) => CatOf(results, CoreFiles).passed

(* C7 amended: the same whenever the required-file checks complete, that   *)
(* is, when no present required file fails to be read; when one does, the  *)
(* category is aborted before the optional files are looked at and adds    *)
(* neither a Recommendation nor a Fixable Issue for any of them.           *)
C7_AbsentOptionalFileReportedUnlessAborted ==
  (Ran(CoreFiles) /\ pc # "core") =>
    /\ \A name \in OptionalNames :
         IF Absent(fs, name) /\ ~CoreFault(fs) THEN OptionalFileReported(results, name)
         ELSE OptionalFileSilent(results, name)
    /\ (\A name \in RequiredNames : ~Absent(fs, name)) => CatOf(results, CoreFiles).passed

C7_Witness ==
  /\ pc = "docker"
  /\ AllRequiredPresent(fs)
  /\ \A name \in OptionalNames : Absent(fs, name)
  /\ Len(results.fixableIssues) = 3
  /\ Len(results.recommendations) = 3
  /\ CatOf(results, CoreFiles).passed

----------------------------------------------------------------------------
(* Dockerfile *)

IsDockerError(e) == e.category = "docker"
IsDockerfileIssue(i) == i.type = "create-dockerfile"

(* C8: with the Dockerfile absent, Docker Setup emits exactly one Error    *)
(* and exactly one create-dockerfile Fixable Issue and is failed; with a   *)
(* Dockerfile whose content has no 'FROM ', it emits exactly one Error, is *)
(* failed and emits no Fixable Issue.                                      *)
C8_Step ==
  LET node == fs.files["Dockerfile"]
      n    == Len(results.errors)
  IN
  /\ (pc = "docker" /\ node.st = "absent") =>
       /\ Len(results'.errors) = n + 1
       /\ SubSeq(results'.errors, 1, n) = results.errors
       /\ IsDockerError(results'.errors[n + 1])
       /\ Len(results'.fixableIssues) = Len(results.fixableIssues) + 1
       /\ IsDockerfileIssue(results'.fixableIssues[Len(results'.fixableIssues)])
       /\ ~CatOf(results', DockerSetup).passed
  /\ (pc = "docker" /\ node.st = "file" /\ ~Includes(node.content, <<"FROM ">>)) =>
       /\ Len(results'.errors) = n + 1
       /\ SubSeq(results'.errors, 1, n) = results.errors
       /\ IsDockerError(results'.errors[n + 1])
       /\ results'.fixableIssues = results.fixableIssues
       /\ ~CatOf(results', DockerSetup).passed

C8_DockerfileAbsentOrWithoutFrom == [][C8_Step]_vars

C8_Witness ==
  /\ pc = "workflows"
  /\ CanRead(fs.files["Dockerfile"])
  /\ ~Includes(fs.files["Dockerfile"].content, <<"FROM ">>)
  /\ Len(SelectSeq(results.errors, IsDockerError)) = 1
  /\ Len(SelectSeq(results.fixableIssues, IsDockerfileIssue)) = 0
  /\ ~CatOf(results, DockerSetup).passed

(* The content sets USER root and no later USER directive names another    *)
(* user.                                                                   *)
StaysRoot(content) ==
  \E i \in 1..(Len(content) - 1) :
     /\ content[i] = "USER " /\ content[i + 1] = "root"
     /\ \A j \in (i + 1)..(Len(content) - 1) :
          content[j] = "USER " => content[j + 1] = "root"

IsDockerfileSecurityWarning(w) ==
  w.category = "security" /\ w.file = <<"Dockerfile">>

(* C9: for a present Dockerfile that sets USER root and does not switch to *)
(* a narrower user afterwards, Docker Setup emits one security Warning     *)
(* (and no Error for it).                                                  *)
C9_RootDockerfileWarned ==
  (Ran(DockerSetup) /\ pc # "docker" /\ CanRead(fs.files["Dockerfile"])
     /\ StaysRoot(fs.files["Dockerfile"].content)) =>
    Len(SelectSeq(results.warnings, IsDockerfileSecurityWarning)) = 1

----------------------------------------------------------------------------
(* Workflow files *)

YmlEntries(tree) == SelectSeq(tree.workflows.entries, IsYmlEntry)

ErrorsCiting(r, entry) ==
  SelectSeq(r.errors, LAMBDA e : e.file = Join(workflowsDir, entry.name))

FailsToParse(content) == YamlParse(content).err # Undefined

(* The Errors one readable workflow file calls for. *)
ErrorsDue(content) ==
  LET doc == YamlParse(content) IN
  IF doc.err # Undefined \/ doc.kind = "null" THEN 1
  ELSE (IF Falsy(Property(doc, "on")) THEN 1 ELSE 0)
         + (IF Falsy(Property(doc, "jobs")) THEN 1 ELSE 0)

WorkflowLoopRan ==
  /\ Ran(GitHubWorkflows)
  /\ pc # "workflows"
  /\ fs.workflows.st = "dir"

(* C10 as stated: every workflow file is examined whatever the outcome of  *)
(* the others; a file that fails to parse yields exactly one Error citing  *)
(* it and fails the category, and the files after it are still checked.    *)
C10_EveryWorkflowFileExamined ==
  WorkflowLoopRan =>
    \A i \in 1..Len(YmlEntries(fs)) :
       LET entry == YmlEntries(fs)[i] IN
       CanRead(entry.node) =>
         /\ Len(ErrorsCiting(results, entry)) = ErrorsDue(entry.node.content)
         /\ FailsToParse(entry.node.content) =>
              /\ Len(ErrorsCiting(results, entry)) = 1
              /\ ~CatOf(results, GitHubWorkflows).passed

(* C10 amended: the same for every workflow file listed before the first   *)
(* one that cannot be read; a workflow file that cannot be read aborts the *)
(* pass, and the files listed after it are not examined (no Error cites    *)
(* them).                                                                  *)
C10_WorkflowFilesExaminedUntilUnreadable ==
  WorkflowLoopRan =>
    \A i \in 1..Len(YmlEntries(fs)) :
       LET entry == YmlEntries(fs)[i] IN
       IF \A j \in 1..i : CanRead(YmlEntries(fs)[j].node)
       THEN /\ Len(ErrorsCiting(results, entry)) = ErrorsDue(entry.node.content)
            /\ FailsToParse(entry.node.content) =>
                 /\ Len(ErrorsCiting(results, entry)) = 1
                 /\ ~CatOf(results, GitHubWorkflows).passed
       ELSE Len(ErrorsCiting(results, entry)) = 0

C10_Witness ==
  /\ pc = "returned"
  /\ WorkflowLoopRan
  /\ Len(YmlEntries(fs)) = 2
  /\ CanRead(YmlEntries(fs)[1].node) /\ CanRead(YmlEntries(fs)[2].node)
  /\ FailsToParse(YmlEntries(fs)[1].node.content)
  /\ ~FailsToParse(YmlEntries(fs)[2].node.content)
  /\ Len(ErrorsCiting(results, YmlEntries(fs)[1])) = 1
  /\ Len(ErrorsCiting(results, YmlEntries(fs)[2])) = 1

----------------------------------------------------------------------------
(* Required keys of a workflow document *)

KeyMissing(content, key) == \A i \in 1..Len(content) : LineKey(content[i]) # key

KeyEmpty(content, key) ==
  \E i \in 1..Len(content) : LineKey(content[i]) = key /\ LineValue(content[i]) = "null"

ParsedOk(content) == YamlParse(content).err = Undefined

MessageEnds(e, tail) == e.message # <<>> /\ e.message[Len(e.message)] = tail

TriggerErrors(r, entry) ==
  SelectSeq(ErrorsCiting(r, entry),
            LAMBDA e : MessageEnds(e, " missing trigger configuration"))

JobsErrors(r, entry) ==
  SelectSeq(ErrorsCiting(r, entry),
            LAMBDA e : MessageEnds(e, " missing jobs configuration"))

(* The workflow file at position i of the listing was read and checked. *)
WorkflowExamined(i) ==
  /\ WorkflowLoopRan
  /\ i \in 1..Len(YmlEntries(fs))
  /\ \A j \in 1..i : CanRead(YmlEntries(fs)[j].node)

OneIf(b) == IF b THEN 1 ELSE 0

(* C11 as stated: for every successfully parsed workflow document an Error *)
(* for 'on' is emitted iff that key is missing from the document, and      *)
(* independently an Error for 'jobs' iff that key is missing.              *)
C11_KeyErrorIffKeyMissing ==
  \A i \in 1..MaxFiles + 1 :
    (WorkflowExamined(i) /\ ParsedOk(YmlEntries(fs)[i].node.content)) =>
      LET entry == YmlEntries(fs)[i]
          doc   == entry.node.content
      IN /\ Len(TriggerErrors(results, entry)) = OneIf(KeyMissing(doc, "on"))
         /\ Len(JobsErrors(results, entry)) = OneIf(KeyMissing(doc, "jobs"))

(* C11 amended: for every workflow document that parses to something      *)
(* other than null, an Error for 'on' is emitted iff the key is missing or *)
(* its value is empty (falsy), and independently the same for 'jobs'; a    *)
(* file with only 'name: ...' and 'on: ...' yields exactly one Error,      *)
(* citing it, for the jobs key.  An empty document parses to null and      *)
(* yields one 'Invalid YAML' Error and neither key Error.                  *)
C11_KeyErrorIffKeyMissingOrEmpty ==
  \A i \in 1..MaxFiles + 1 :
    (WorkflowExamined(i) /\ ParsedOk(YmlEntries(fs)[i].node.content)) =>
      LET entry == YmlEntries(fs)[i]
          doc   == entry.node.content
      IN IF doc = <<>>
         THEN /\ Len(ErrorsCiting(results, entry)) = 1
              /\ Len(TriggerErrors(results, entry)) = 0
              /\ Len(JobsErrors(results, entry)) = 0
         ELSE /\ Len(TriggerErrors(results, entry))
                   = OneIf(KeyMissing(doc, "on") \/ KeyEmpty(doc, "on"))
              /\ Len(JobsErrors(results, entry))
                   = OneIf(KeyMissing(doc, "jobs") \/ KeyEmpty(doc, "jobs"))
              /\ Len(ErrorsCiting(results, entry))
                   = Len(TriggerErrors(results, entry)) + Len(JobsErrors(results, entry))
              /\ doc = <<"name: CI", "on: push">> =>
                   Len(ErrorsCiting(results, entry)) = 1

C11_Witness ==
  /\ pc = "returned"
  /\ WorkflowExamined(1)
  /\ YmlEntries(fs)[1].node.content = <<"name: CI", "on: push">>
  /\ Len(JobsErrors(results, YmlEntries(fs)[1])) = 1
  /\ Len(ErrorsCiting(results, YmlEntries(fs)[1])) = 1
  /\ Len(results.errors) = 1

----------------------------------------------------------------------------
(* C12: when at least one workflow file exists, exactly one naming Warning *)
(* is emitted iff no workflow file name contains 'build', 'notify' or      *)
(* 'sdk'; the check adds no Error and does not fail the category: a        *)
(* listing whose files are all complete passes whatever their names.       *)
HasKeyword(name) ==
  \E k \in {"build", "notify", "sdk"} : \E i \in 1..Len(name) : name[i] = k

IsNamingWarning(w) ==
  w.category = "workflows"
    /\ w.message = <<"No build-and-notify workflow found - SDK updates may not be automated">>

IsWorkflowsError(e) == e.category = "workflows"

C12_NamingWarningIffNoKeyword ==
  (WorkflowLoopRan /\ Len(YmlEntries(fs)) > 0) =>
    /\ Len(SelectSeq(results.warnings, IsNamingWarning))
         = OneIf(\A i \in 1..Len(YmlEntries(fs)) : ~HasKeyword(YmlEntries(fs)[i].name))
    /\ Len(SelectSeq(results.warnings, LAMBDA w : w.category = "workflows"))
         = Len(SelectSeq(results.warnings, IsNamingWarning))
    /\ (\A i \in 1..Len(YmlEntries(fs)) :
           /\ CanRead(YmlEntries(fs)[i].node)
           /\ ErrorsDue(YmlEntries(fs)[i].node.content) = 0) =>
         /\ CatOf(results, GitHubWorkflows).passed
         /\ Len(SelectSeq(results.errors, IsWorkflowsError)) = 0
         /\ (pc = "returned" /\ caught = Undefined) =>
              (results.isValid <=> Len(results.errors) = 0)

C12_Witness ==
  /\ pc = "returned"
  /\ WorkflowLoopRan
  /\ Len(YmlEntries(fs)) = 1
  /\ Len(fs.workflows.entries) = 2
  /\ ~HasKeyword(YmlEntries(fs)[1].name)
  /\ Len(SelectSeq(results.warnings, IsNamingWarning)) = 1
  /\ CatOf(results, GitHubWorkflows).passed
  /\ results.isValid

----------------------------------------------------------------------------
(* Documentation and Security *)

(* What one step appended to a list of the report. *)
Appended(old, new) == SubSeq(new, Len(old) + 1, Len(new))

C13_Step ==
  pc \in {"documentation", "security"} =>
        /\ results'.errors = results.errors
        /\ pc' \in {"security", "final"}
        /\ \A i \in 1..Len(results'.categories) :
             results'.categories[i].name \in {Documentation, Security} =>
               results'.categories[i].passed

(* C13 as stated: the Documentation and Security categories never cause an *)
(* Error to be added to the report, never make the pass end invalid, and   *)
(* their status is always passed, whatever docs/, examples/ and            *)
(* SECURITY.md are.                                                        *)
C13_DocumentationAndSecurityNonBlocking == [][ C13_Step ]_vars

IsDocsAbsentRecommendation(m) ==
  m = <<"Consider creating a docs/ directory for additional documentation">>

IsDocsFoundRecommendation(m) ==
  Len(m) = 3 /\ m[1] = "Good practice: Found " /\ m[3] = " documentation files in docs/"

IsExamplesRecommendation(m) ==
  m = <<"Consider adding examples/ directory with sample code and usage examples">>

C14_StatedStep ==
  pc = "documentation" =>
        LET added == Appended(results.recommendations, results'.recommendations)
        IN /\ Len(SelectSeq(added, IsExamplesRecommendation))
                = OneIf(fs.examples.st # "dir")
           /\ Len(added) - Len(SelectSeq(added, IsExamplesRecommendation))
                = OneIf(fs.docs.st # "dir")
           /\ (fs.docs.st = "dir" /\ fs.examples.st = "dir") => added = <<>>

(* C14 as stated: the Documentation category adds a Recommendation about   *)
(* docs/ exactly when the docs directory is absent and one about examples/ *)
(* exactly when the examples directory is absent; when both directories    *)
(* exist it adds no Recommendation at all.                                 *)
C14_RecommendationIffDirectoryAbsent == [][ C14_StatedStep ]_vars

C14_Step ==
  pc = "documentation" =>
        LET added == Appended(results.recommendations, results'.recommendations)
        IN /\ Len(results'.recommendations) = Len(results.recommendations) + Len(added)
           /\ IF fs.docs.st \notin {"absent", "dir"}
              THEN added = <<>> /\ pc' = "returned" /\ caught' # Undefined
              ELSE /\ pc' = "security"
                   /\ Len(SelectSeq(added, IsDocsAbsentRecommendation))
                        = OneIf(fs.docs.st = "absent")
                   /\ Len(SelectSeq(added, IsDocsFoundRecommendation))
                        = OneIf(fs.docs.st = "dir")
                   /\ Len(SelectSeq(added, IsExamplesRecommendation))
                        = OneIf(fs.examples.st = "absent")
                   /\ Len(added) = 1 + OneIf(fs.examples.st = "absent")
                   /\ (fs.docs.st = "dir" /\ fs.examples.st = "dir") =>
                        added = << <<"Good practice: Found ", ToString(fs.docs.count),
                                     " documentation files in docs/">> >>

(* C14 amended: when nothing named docs exists the Documentation category  *)
(* adds the 'Consider creating a docs/ directory' Recommendation; when     *)
(* docs is a directory it adds instead the 'Good practice: Found N         *)
(* documentation files in docs/' Recommendation; when docs exists but      *)
(* cannot be listed the pass is aborted and the category adds nothing.     *)
(* Unless aborted, it adds the examples/ Recommendation exactly when       *)
(* nothing named examples exists (a file of that name suppresses it).  So  *)
(* with both directories present it adds exactly one Recommendation.       *)
C14_DocumentationRecommendations == [][ C14_Step ]_vars

C14_Witness ==
  /\ pc = "security"
  /\ fs.docs.st = "dir"
  /\ fs.examples.st = "dir"
  /\ results.recommendations # <<>>
  /\ IsDocsFoundRecommendation(results.recommendations[Len(results.recommendations)])

----------------------------------------------------------------------------
(* Category status within one pass *)

TagOf(name) ==
  CASE name = CoreFiles       -> "core-files"
    [] name = DockerSetup     -> "docker"
    [] name = GitHubWorkflows -> "workflows"
    [] name = Documentation   -> "documentation"
    [] name = Security        -> "security"

C15_Step ==
  pc' # "core" =>
        /\ \A i \in 1..Len(results.categories) :
             ~results.categories[i].passed =>
               /\ i <= Len(results'.categories)
               /\ results'.categories[i].name = results.categories[i].name
               /\ ~results'.categories[i].passed
        /\ \A i \in 1..Len(results'.categories) :
             (\E k \in 1..Len(Appended(results.errors, results'.errors)) :
                Appended(results.errors, results'.errors)[k].category
                  = TagOf(results'.categories[i].name))
               => ~results'.categories[i].passed

(* C15: within one validation pass, once a category's passed flag has      *)
(* become false no later rule of that pass sets it back to true: a         *)
(* category that a step leaves failed stays failed through every later     *)
(* step of the pass, and a category for which a step recorded a tagged     *)
(* Error ends that step failed whatever its later rules found.             *)
C15_FailedCategoryStaysFailed == [][ C15_Step ]_vars

C15_Witness ==
  /\ pc = "returned"
  /\ WorkflowLoopRan
  /\ Len(YmlEntries(fs)) = 2
  /\ CanRead(YmlEntries(fs)[1].node) /\ CanRead(YmlEntries(fs)[2].node)
  /\ ErrorsDue(YmlEntries(fs)[1].node.content) > 0
  /\ ErrorsDue(YmlEntries(fs)[2].node.content) = 0
  /\ ~CatOf(results, GitHubWorkflows).passed
  /\ Len(results.categories) = 5

----------------------------------------------------------------------------
(* Fixes *)

(* A step in which applyFix was called, and the call it made. *)
FixAttempted == Len(fixLog') = Len(fixLog) + 1

LastAttempt(log) == log[Len(log)]

Succeeded(attempt) == attempt.err = Undefined

TargetOf(issue) == IF issue.type = "create-dockerfile" THEN "Dockerfile" ELSE issue.file[1]

OthersUnchanged(target) ==
  /\ \A name \in RootNames \ {target} : fs'.files[name] = fs.files[name]
  /\ fs'.workflows = fs.workflows
  /\ fs'.docs = fs.docs
  /\ fs'.examples = fs.examples

C16_Step ==
  (FixAttempted /\ Succeeded(LastAttempt(fixLog'))) =>
    LET issue == LastAttempt(fixLog').issue IN
    /\ fs'.files[TargetOf(issue)] = Text(issue.template)
    /\ fs'.root = "dir"
    /\ OthersUnchanged(TargetOf(issue))
    /\ (fixLog # <<>> /\ Succeeded(LastAttempt(fixLog))
          /\ LastAttempt(fixLog).issue = issue) => fs' = fs

(* C16: after a successful applyFix the target file (issue.file for        *)
(* create-file, Dockerfile for create-dockerfile) holds exactly the issue's *)
(* template whatever it held before, its parent directory exists, and no   *)
(* other file under the root is changed; applying the same issue a second  *)
(* time leaves the content identical.                                      *)
C16_FixWritesTemplateOnly == [][ C16_Step ]_vars

C16_Witness ==
  /\ Len(fixLog) = 2
  /\ fixLog[1] = fixLog[2]
  /\ Succeeded(fixLog[1])
  /\ fixLog[1].issue.type = "create-file"
  /\ fixLog[1].issue.file = <<"README.md">>
  /\ fs.files["README.md"] = Text(fixLog[1].issue.template)
  /\ fs.files["README.md"] # GoodReadme
  /\ fs.files["LICENSE"] = GoodLicense

C17_Step ==
  (FixAttempted
     /\ LastAttempt(fixLog').issue.type \notin {"create-file", "create-dockerfile"}) =>
    /\ ~Succeeded(LastAttempt(fixLog'))
    /\ LastAttempt(fixLog').err = <<"Unknown fix type: ", LastAttempt(fixLog').issue.type>>
    /\ fs' = fs

(* C17: applyFix with an issue whose kind is neither create-file nor       *)
(* create-dockerfile fails with an error and writes nothing: the           *)
(* filesystem under the target root is unchanged.                          *)
C17_UnknownKindFailsWithoutWriting == [][ C17_Step ]_vars

C17_Witness ==
  /\ fixLog # <<>>
  /\ LastAttempt(fixLog).issue.type = "delete-file"
  /\ ~Succeeded(LastAttempt(fixLog))
  /\ fs.files["LICENSE"] = GoodLicense
  /\ pc = "fixed"

IsMissingDockerfileError(e) == e = MissingDockerfileError

(* C18: for any Fixable Issue taken from a report, after applyFix succeeds *)
(* for it and validateRepository is run again on the same root, the issue  *)
(* is gone from fixableIssues; for an optional-file issue the file's       *)
(* Recommendation is gone too, and for the create-dockerfile issue the     *)
(* missing-Dockerfile Error is gone and the generated Dockerfile raises no *)
(* Docker Setup Error.                                                     *)
C18_FixedIssueGoneAfterRevalidation ==
  (pc = "returned" /\ caller = "api") =>
    \A k \in 1..Len(fixLog) :
      LET issue == fixLog[k].issue IN
      (Succeeded(fixLog[k]) /\ issue \notin OwnIssues) =>
        /\ issue \notin Range(results.fixableIssues)
        /\ issue.type = "create-file" =>
             /\ issue.file[1] \in OptionalNames
             /\ Len(RecommendationsFor(results, issue.file[1])) = 0
             /\ Len(IssuesFor(results, issue.file[1])) = 0
        /\ issue.type = "create-dockerfile" =>
             /\ Len(SelectSeq(results.errors, IsMissingDockerfileError)) = 0
             /\ Len(SelectSeq(results.errors, IsDockerError)) = 0
             /\ CatOf(results, DockerSetup).passed

C18_Witness ==
  /\ pc = "returned"
  /\ caller = "api"
  /\ Len(fixLog) = 2
  /\ Succeeded(fixLog[1]) /\ Succeeded(fixLog[2])
  /\ fixLog[1].issue = DockerfileIssue
  /\ fixLog[2].issue.type = "create-file"
  /\ fixLog[2].issue.file = <<"SECURITY.md">>
  /\ held.value = results
  /\ CatOf(results, DockerSetup).passed
  /\ Len(IssuesFor(results, "SECURITY.md")) = 0

----------------------------------------------------------------------------
(* The auto-fix loop of the command *)

Successes(log) == Len(SelectSeq(log, Succeeded))

(* C19: in the auto-fix loop applyFix is attempted exactly once for every  *)
(* Fixable Issue of the report, in report order, whether or not earlier    *)
(* applications failed; writes already made are not rolled back, and the   *)
(* fixed count equals the number of applications that succeeded.           *)
C19_EveryIssueAttemptedOnce ==
  (caller = "cli" /\ pc \in {"autofix", "exited"} /\ fs.root = "dir") =>
    /\ Len(fixLog) <= Len(results.fixableIssues)
    /\ \A i \in 1..Len(fixLog) : fixLog[i].issue = results.fixableIssues[i]
    /\ cli.fixedCount = Successes(fixLog)
    /\ \A i \in 1..Len(fixLog) :
         Succeeded(fixLog[i]) =>
           fs.files[TargetOf(fixLog[i].issue)] = Text(fixLog[i].issue.template)
    /\ (pc = "exited" /\ options.fix) => Len(fixLog) = Len(results.fixableIssues)
    /\ ~options.fix => fixLog = <<>>

C19_Witness ==
  /\ caller = "cli"
  /\ pc = "exited"
  /\ Len(results.fixableIssues) = 4
  /\ Len(fixLog) = 4
  /\ ~Succeeded(fixLog[1])
  /\ Succeeded(fixLog[2])
  /\ ~Succeeded(fixLog[3])
  /\ Succeeded(fixLog[4])
  /\ cli.fixedCount = 2
  /\ fs.files["Dockerfile"] = Text(getDockerfileTemplate)

----------------------------------------------------------------------------
(* Sequential calls on one engine *)

C20_Step == (held.ref # 0 /\ pc' # "returned") => held' = held

(* C20: for sequential validateRepository calls on one engine, the report  *)
(* of a later call carries nothing over from an earlier call (it is the    *)
(* report a new engine computes for the tree), and a report object already *)
(* returned to the caller is not modified by any later call.               *)
C20_ReportsIndependent ==
  /\ [](pc = "returned" => results = validateRepository(fs))
  /\ [][ C20_Step ]_vars

C20_Witness ==
  /\ pc = "security"
  /\ caller = "api"
  /\ held.ref # 0
  /\ held.ref # ref
  /\ ~held.value.isValid
  /\ Len(held.value.errors) = 1
  /\ Len(held.value.fixableIssues) = 4
  /\ results.errors = <<>>
  /\ Len(results.fixableIssues) = 3
  /\ Len(fixLog) = 1

----------------------------------------------------------------------------
(* Exit code of the validate command *)

C22_Step == (caller = "cli" /\ pc \in {"returned", "autofix"}) => results' = results

C22_Convention ==
  (caller = "cli" /\ pc = "exited" /\ fs.root = "dir") =>
    /\ results.isValid => cli.exitCode = 0
    /\ Len(results.errors) > 0 => cli.exitCode = 2
    /\ (~results.isValid /\ Len(results.errors) = 0) => cli.exitCode = 1
    /\ fixLog = <<>> => results = validateRepository(fs)
    /\ (fixLog # <<>> /\ \A i \in 1..Len(fixLog) : ~Succeeded(fixLog[i])) =>
         results = validateRepository(fs)

(* C22: the exit code of the validate command is 0 when the report is      *)
(* valid, 2 when it contains any Error, 1 when isValid is false with no    *)
(* Error; the report it is derived from is that of the single pass run     *)
(* before any auto-fix, so a run with --fix that repairs every reported    *)
(* Error still exits with the pre-fix code.                                *)
C22_ExitCodeFromPreFixReport == []C22_Convention /\ [][ C22_Step ]_vars

C22_Witness ==
  /\ caller = "cli"
  /\ pc = "exited"
  /\ options.fix
  /\ results.errors = <<MissingDockerfileError>>
  /\ \A i \in 1..Len(fixLog) : Succeeded(fixLog[i])
  /\ validateRepository(fs).isValid
  /\ cli.exitCode = 2

----------------------------------------------------------------------------
(* Scenarios *)

EmptyDirectory(tree) ==
  /\ tree.root = "dir"
  /\ \A name \in RootNames : tree.files[name].st = "absent"
  /\ tree.workflows.st = "absent"
  /\ tree.docs.st = "absent"
  /\ tree.examples.st = "absent"

HasError(r, e) == \E i \in 1..Len(r.errors) : r.errors[i] = e

(* C23: for an empty target directory validateRepository returns isValid = *)
(* false with errors that include a missing VERSION.txt, README.md,        *)
(* LICENSE, Dockerfile and workflows directory, and filesChecked >= 4.     *)
C23_EmptyDirectory ==
  (pc = "returned" /\ EmptyDirectory(fs)) =>
    /\ ~results.isValid
    /\ \A i \in 1..Len(requiredFiles) :
         Len(ErrorsFor(results, requiredFiles[i].path)) = 1
    /\ HasError(results, MissingDockerfileError)
    /\ HasError(results, MissingWorkflowsDirError)
    /\ results.filesChecked >= 4

C23_Witness ==
  /\ pc = "returned"
  /\ EmptyDirectory(fs)
  /\ Len(results.errors) = 5
  /\ results.filesChecked = 5

(* Every required and optional file is present, the Dockerfile names a     *)
(* base image, and the one workflow file is a notify workflow with both    *)
(* keys.                                                                   *)
CompleteDirectory(tree) ==
  /\ tree.root = "dir"
  /\ \A name \in RequiredNames \cup {"Dockerfile"} : CanRead(tree.files[name])
  /\ \A name \in OptionalNames : pathExists(tree.files[name])
  /\ Includes(tree.files["Dockerfile"].content, <<"FROM ">>)
  /\ tree.workflows.st = "dir"
  /\ Len(YmlEntries(tree)) = 1
  /\ Includes(YmlEntries(tree)[1].name, <<"notify">>)
  /\ CanRead(YmlEntries(tree)[1].node)
  /\ ErrorsDue(YmlEntries(tree)[1].node.content) = 0

IsDevcontainerRecommendation(m) ==
  m = <<"Consider adding .devcontainer/devcontainer.json for VS Code development">>

----------------------------------------------------------------------------
(* Validation and the target root *)

C25_Step ==
  /\ (pc \in {"idle", "core", "docker", "workflows", "documentation", "security",
               "final"}) => fs' = fs
  /\ fs' # fs => (FixAttempted /\ pc \in {"returned", "fixed", "autofix"})
  /\ (pc' = "core") => fs' = fs

(* C25: validateRepository is read-only: for every configuration,          *)
(* including an engine constructed with autoFix = true, a validation pass  *)
(* creates, modifies or deletes nothing under the target root; files       *)
(* change only through an explicit applyFix call made by the caller.       *)
C25_ValidationReadOnly == [][ C25_Step ]_vars

C25_Witness ==
  /\ pc = "returned"
  /\ options.fix
  /\ fixLog = <<>>
  /\ Len(results.fixableIssues) = 4
  /\ \A i \in 1..4 : fs.files[TargetOf(results.fixableIssues[i])].st = "absent"

----------------------------------------------------------------------------
(* Order of the findings *)

(* Position in the pass of the category that produces a finding. *)
ErrorRank(e) ==
  CASE e.category = "core-files" -> 1
    [] e.category = "docker"     -> 2
    [] e.category = "workflows"  -> 3
    [] e.category = "system"     -> 6

WarningRank(w) ==
  CASE w.category \in {"versioning", "documentation"} -> 1
    [] w.category = "security" /\ w.file = <<"Dockerfile">> -> 2
    [] w.category = "workflows" -> 3
    [] w.category = "security" /\ w.file # <<"Dockerfile">> -> 5

RecommendationRank(m) ==
  CASE IsDevcontainerRecommendation(m) -> 2
    [] IsDocsAbsentRecommendation(m) \/ IsDocsFoundRecommendation(m)
         \/ IsExamplesRecommendation(m) -> 4
    [] OTHER -> 1

IssueRank(i) == IF i.type = "create-file" THEN 1 ELSE 2

RequiredIndex(name) == CHOOSE i \in 1..Len(requiredFiles) : requiredFiles[i].path = name

CoreErrors(r) == SelectSeq(r.errors, LAMBDA e : e.category = "core-files")

(* C26: each of errors, warnings, recommendations and fixableIssues lists  *)
(* its entries in rule evaluation order: Core Files entries before those   *)
(* of Docker Setup, then GitHub Workflows, Documentation, Security; a      *)
(* 'system' Error, if present, is the last Error; the required-file Errors *)
(* of Core Files are in the order VERSION.txt, README.md, LICENSE.         *)
C26_EntriesInEvaluationOrder ==
  /\ \A i, j \in 1..Len(results.errors) :
       i < j => ErrorRank(results.errors[i]) <= ErrorRank(results.errors[j])
  /\ \A i \in 1..Len(results.errors) :
       IsSystemError(results.errors[i]) => i = Len(results.errors)
  /\ \A i, j \in 1..Len(results.warnings) :
       i < j => WarningRank(results.warnings[i]) <= WarningRank(results.warnings[j])
  /\ \A i, j \in 1..Len(results.recommendations) :
       i < j => RecommendationRank(results.recommendations[i])
                  <= RecommendationRank(results.recommendations[j])
  /\ \A i, j \in 1..Len(results.fixableIssues) :
       i < j => IssueRank(results.fixableIssues[i]) <= IssueRank(results.fixableIssues[j])
  /\ \A i, j \in 1..Len(CoreErrors(results)) :
       i < j => RequiredIndex(CoreErrors(results)[i].file[1])
                  < RequiredIndex(CoreErrors(results)[j].file[1])

C26_Witness ==
  /\ pc = "returned"
  /\ Len(results.errors) = 5
  /\ results.errors[1].file = <<"VERSION.txt">>
  /\ results.errors[2].file = <<"README.md">>
  /\ results.errors[3].file = <<"LICENSE">>
  /\ results.errors[4].category = "docker"
  /\ results.errors[5].category = "workflows"
  /\ Len(results.fixableIssues) = 4
  /\ results.fixableIssues[4].type = "create-dockerfile"
  /\ Len(results.recommendations) = 6

----------------------------------------------------------------------------
(* Category status and tagged Errors *)

TaggedErrors(r, name) == SelectSeq(r.errors, LAMBDA e : e.category = TagOf(name))

(* C27: in every returned report a category's passed flag is false if and  *)
(* only if the errors list contains at least one Error tagged for that     *)
(* category; consequently isValid = true implies that all five categories  *)
(* are present in the report with passed = true.                           *)
C27_FailedIffTaggedError ==
  pc = "returned" =>
    /\ \A i \in 1..Len(results.categories) :
         ~results.categories[i].passed
           <=> Len(TaggedErrors(results, results.categories[i].name)) > 0
    /\ \A i \in 1..Len(results.errors) :
         results.errors[i].category \in {"core-files", "docker", "workflows"} =>
           \E k \in 1..Len(results.categories) :
             TagOf(results.categories[k].name) = results.errors[i].category
    /\ results.isValid =>
         /\ CategorySeq(results) = CategoryOrder
         /\ \A i \in 1..5 : results.categories[i].passed

C27_Witness ==
  /\ pc = "returned"
  /\ ~results.isValid
  /\ Len(results.categories) = 5
  /\ CatOf(results, CoreFiles).passed
  /\ ~CatOf(results, DockerSetup).passed
  /\ ~CatOf(results, GitHubWorkflows).passed
  /\ Len(TaggedErrors(results, CoreFiles)) = 0
  /\ Len(TaggedErrors(results, DockerSetup)) = 1
  /\ Len(TaggedErrors(results, GitHubWorkflows)) = 1

----------------------------------------------------------------------------
(* Targets of the Fixable Issues *)

FixTargets == OptionalNames \cup {"Dockerfile"}

C28_Targets ==
  ReportCurrent =>
    /\ \A i \in 1..Len(results.fixableIssues) :
         LET issue == results.fixableIssues[i] IN
         /\ issue.type \in {"create-file", "create-dockerfile"}
         /\ issue.type = "create-file" => Len(issue.file) = 1
         /\ TargetOf(issue) \in FixTargets
         /\ Absent(fs, TargetOf(issue))
    /\ \A i, j \in 1..Len(results.fixableIssues) :
         i # j => TargetOf(results.fixableIssues[i]) # TargetOf(results.fixableIssues[j])

C28_Step ==
  (caller = "cli" /\ FixAttempted /\ Succeeded(LastAttempt(fixLog'))) =>
    LET target == TargetOf(LastAttempt(fixLog').issue) IN
    /\ Absent(fs, target)
    /\ fs'.files[target].st = "file"
    /\ OthersUnchanged(target)

(* C28: every Fixable Issue in a report targets a file that the same pass  *)
(* observed to be absent, and the target is one of CHANGELOG.md,           *)
(* CONTRIBUTING.md, SECURITY.md or Dockerfile directly under the target    *)
(* root; consequently 'validate --fix' only creates files and never        *)
(* overwrites a file that existed when validation ran.                     *)
C28_FixesOnlyCreate == []C28_Targets /\ [][ C28_Step ]_vars

C28_Witness ==
  /\ caller = "cli"
  /\ pc = "exited"
  /\ Len(fixLog) = 4
  /\ \A i \in 1..4 : Succeeded(fixLog[i])
  /\ \A name \in FixTargets : fs.files[name].st = "file"
  /\ fs.files["README.md"] = GoodReadme
  /\ fs.files["VERSION.txt"] = GoodVersion

----------------------------------------------------------------------------
(* validate, fix, validate *)

(* Every Fixable Issue of the report has been applied successfully, and    *)
(* nothing else has been written.                                          *)
AllIssuesApplied ==
  /\ pc \in {"fixed", "autofix", "exited"}
  /\ results.fixableIssues # <<>>
  /\ Len(fixLog) = Len(results.fixableIssues)
  /\ \A i \in 1..Len(fixLog) : Succeeded(fixLog[i])
  /\ {fixLog[i].issue : i \in 1..Len(fixLog)} = Range(results.fixableIssues)

(* C29: after every Fixable Issue of a report has been applied             *)
(* successfully and nothing else changes the directory, the next           *)
(* validateRepository report has an empty fixableIssues list, and it is    *)
(* valid only if the first report's Errors were all missing-Dockerfile     *)
(* Errors: the other Errors are all still in the next report.              *)
C29_ConvergesInOneRound ==
  AllIssuesApplied =>
    LET next == validateRepository(fs) IN
    /\ next.fixableIssues = <<>>
    /\ next.isValid => \A i \in 1..Len(results.errors) :
                          results.errors[i] = MissingDockerfileError
    /\ \A i \in 1..Len(results.errors) :
         results.errors[i] # MissingDockerfileError => HasError(next, results.errors[i])
    /\ ~HasError(next, MissingDockerfileError)

C29_Witness ==
  /\ AllIssuesApplied
  /\ caller = "api"
  /\ Len(fixLog) = 2
  /\ Len(results.errors) = 2
  /\ HasError(results, MissingDockerfileError)
  /\ validateRepository(fs).fixableIssues = <<>>
  /\ Len(validateRepository(fs).errors) = 1
  /\ ~validateRepository(fs).isValid

----------------------------------------------------------------------------
(* Category messages *)

FailureMessages ==
  { <<"Missing required files">>, <<"Missing Dockerfile">>,
    <<"No workflows found">>, <<"No workflow files">> }

(* C30: in every returned report each Category Status is complete: its     *)
(* message is a non-empty string that agrees with its passed flag, so      *)
(* every failed category (Docker Setup failed for a missing base-image     *)
(* directive, GitHub Workflows failed for an invalid workflow file)        *)
(* carries a failure message.                                              *)
C30_CategoryMessagesComplete ==
  pc = "returned" =>
    \A i \in 1..Len(results.categories) :
      /\ results.categories[i].message # Undefined
      /\ ~results.categories[i].passed <=> results.categories[i].message \in FailureMessages

----------------------------------------------------------------------------
(* Overlapping calls *)

C21_Step ==
  /\ (pc' = "returned" /\ pc # "returned") => results' = validateRepository(fs)
  /\ (second'.pc = "returned" /\ second.pc # "returned") =>
       results' = validateRepository(fs)

(* C21: if two validateRepository calls on the same engine overlap (the    *)
(* second starts while the first is suspended at an await), each call      *)
(* returns a report containing exactly the findings of its own pass over   *)
(* its own target root: no finding of one pass appears in, or is missing   *)
(* from, the other's report.                                               *)
C21_OverlappingCallsIndependent == [][ C21_Step ]_vars

====
